---- MODULE Spec2Model ----
(***************************************************************************)
(* A model of hello.py: the FastAPI application (module start-up, the four *)
(* routes) and the script of the page that GET / serves.                   *)
(*                                                                         *)
(* Text.  A Python or JavaScript string is a sequence of symbols.          *)
(*   - A face_id, a name and an agent id are sequences of characters       *)
(*     ("agent-" is <<"a","g","e","n","t","-">>), so that slicing is the   *)
(*     slicing of the code.                                                *)
(*   - A key value, a warning and the HTML document are sequences of       *)
(*     segments: the text is cut at the borders of the two placeholders,   *)
(*     so that "SIMLI_API_KEY" is <<"SIMLI","_API_KEY">>, "TTS_API_KEY" is *)
(*     <<"TTS","_API_KEY">> and "YOUR_TTS_API_KEY_HERE" is                 *)
(*     <<"YOUR","_","TTS","_API_KEY","_HERE">>.  str.replace is computed   *)
(*     on these sequences as Python computes it on characters.             *)
(*   - In the page script an id, a message and a URL are TLA+ strings.     *)
(* JSON scalars are strings; JSON null is JNull; a JSON object is a        *)
(* function from its field names; a JSON array is a sequence.              *)
(***************************************************************************)
EXTENDS Integers, Sequences, FiniteSets, TLC

(***************************************************************************)
(* Bounds of the model.                                                    *)
(***************************************************************************)
MaxFaceIdLen == 9
MaxKeyLen == 2
MaxRequests == 2

SeqsUpTo(S, n) == UNION {[1..k -> S] : k \in 0..n}

(***************************************************************************)
(* Python's str operations.                                                *)
(***************************************************************************)
\* s[:n]
Slice(s, n) == SubSeq(s, 1, IF Len(s) < n THEN Len(s) ELSE n)

\* old occurs in s at index i
MatchAt(s, i, old) ==
    /\ i + Len(old) - 1 <= Len(s)
    /\ \A j \in 1..Len(old) : s[i + j - 1] = old[j]

\* old in s
Contains(s, old) == \E i \in 1..(Len(s) + 1) : MatchAt(s, i, old)

RECURSIVE ReplaceFrom(_, _, _, _)
ReplaceFrom(s, i, old, new) ==
    IF i > Len(s) THEN <<>>
    ELSE IF MatchAt(s, i, old)
         THEN new \o ReplaceFrom(s, i + Len(old), old, new)
         ELSE <<s[i]>> \o ReplaceFrom(s, i + 1, old, new)

\* s.replace(old, new), old not empty: left to right, occurrences that do
\* not overlap, the text put in is not searched again
Replace(s, old, new) == ReplaceFrom(s, 1, old, new)

(***************************************************************************)
(* The state.                                                              *)
(***************************************************************************)
VARIABLES
    phase,          \* "boot" before the module body has run, then "serving"
    environ,        \* os.environ after load_dotenv(): name -> value
    SIMLI_API_KEY,  \* the module global
    TTS_API_KEY,    \* the module global
    stdout,         \* what print() has written
    requests,       \* the requests the framework has dispatched, by number
    upstream,       \* the calls issued to api.simli.ai
    page,           \* the browser's page: document, script variables, DOM
    network,        \* the fetches the page script has issued, in order
    event           \* the last event the page script has handled

server_vars == <<phase, environ, SIMLI_API_KEY, TTS_API_KEY, stdout, requests, upstream>>
page_vars == <<page, network, event>>
vars == <<phase, environ, SIMLI_API_KEY, TTS_API_KEY, stdout, requests, upstream, page, network,
         event>>

NoVal == [none |-> TRUE]
JNull == "<null>"

(***************************************************************************)
(* Module start-up (lines 11-26).                                          *)
(***************************************************************************)
EnvNames == {"SIMLI_API_KEY", "TTS_API_KEY"}

SIMLI_PLACEHOLDER == <<"SIMLI", "_API_KEY">>
TTS_PLACEHOLDER == <<"TTS", "_API_KEY">>
DEFAULT_SIMLI_API_KEY == <<"YOUR", "_API_KEY", "_HERE">>
DEFAULT_TTS_API_KEY == <<"YOUR", "_", "TTS", "_API_KEY", "_HERE">>
WARN_SIMLI ==
    <<"Warning: ", "SIMLI", "_API_KEY",
      " not found in environment variables. Using default value for testing.">>
WARN_TTS ==
    <<"Warning: ", "TTS", "_API_KEY",
      " not found in environment variables. Using default value for testing.">>

\* os.getenv(name): <<>> is None, <<v>> is the string v
getenv(name) == IF name \in DOMAIN environ THEN <<environ[name]>> ELSE <<>>

\* Python's `not x` for x an optional string: None and "" are falsy
IsFalsy(x) == x = <<>> \/ x[1] = <<>>

KeyOrDefaultNoFallback(x, default) == IF x = <<>> THEN <<>> ELSE x[1]
KeyOrDefault(x, default) == IF IsFalsy(x) THEN default ELSE x[1]

Startup ==
    /\ phase = "boot"
    /\ LET simli == getenv("SIMLI_API_KEY")
           tts == getenv("TTS_API_KEY")
       IN /\ SIMLI_API_KEY' = KeyOrDefault(simli, DEFAULT_SIMLI_API_KEY)
          /\ TTS_API_KEY' = KeyOrDefault(tts, DEFAULT_TTS_API_KEY)
          /\ stdout' = (IF IsFalsy(simli) THEN <<WARN_SIMLI>> ELSE <<>>)
                       \o (IF IsFalsy(tts) THEN <<WARN_TTS>> ELSE <<>>)
    /\ phase' = "serving"
    /\ UNCHANGED <<environ, requests, upstream, page_vars>>

(***************************************************************************)
(* Requests and outcomes.                                                  *)
(***************************************************************************)
FreeRequest ==
    [state |-> "free", route |-> "", input |-> NoVal, reply |-> NoVal, outcome |-> NoVal]

\* the framework dispatches a request only once the module body has run, and
\* numbers the requests in the order of their arrival
Dispatchable(r) ==
    /\ phase = "serving"
    /\ requests[r].state = "free"
    /\ \A q \in 1..(r - 1) : requests[q].state # "free"

\* raise HTTPException(status_code=..., detail=...)
HTTPException(status_code, detail) ==
    [kind |-> "HTTPException", status_code |-> status_code, detail |-> detail]

\* an exception the handler does not catch: the framework answers 500
ServerError(what) == [kind |-> "error", status_code |-> 500, detail |-> <<what>>]

Response(status_code, body) ==
    [kind |-> "response", status_code |-> status_code, body |-> body]

(***************************************************************************)
(* The pydantic models (lines 28-62) and response_model.                   *)
(***************************************************************************)
FaceOptionFields == {"id", "name", "previewImage", "previewVideo", "createdAt"}
FaceOptionRequired == {"id", "name", "previewImage"}
SessionTokenResponseFields == {"session_token"}
SessionTokenResponseRequired == {"session_token"}

\* the object validates against a model whose required fields are `required`
Validates(obj, required) == required \subseteq DOMAIN obj

\* the validated object as the framework serializes it: the model's fields
\* only, an optional field that is absent takes its default None
SerializeVerbatim(obj, fields) == obj
Serialize(obj, fields) ==
    [f \in fields |-> IF f \in DOMAIN obj THEN obj[f] ELSE JNull]

\* response_model=List[FaceOption] applied to what get_faces returns
FacesResponse(json) ==
    IF \E i \in 1..Len(json) : ~Validates(json[i], FaceOptionRequired)
    THEN ServerError("ResponseValidationError")
    ELSE Response(200, [i \in 1..Len(json) |-> Serialize(json[i], FaceOptionFields)])

\* response_model=SessionTokenResponse applied to what
\* create_e2e_session_token returns
TokenResponse(json) ==
    IF ~Validates(json, SessionTokenResponseRequired)
    THEN ServerError("ResponseValidationError")
    ELSE Response(200, Serialize(json, SessionTokenResponseFields))

(***************************************************************************)
(* What the upstream service may answer.  A response carries a status and  *)
(* a body; response.text is the body's text and response.json() its parsed *)
(* value, which raises when the body is not JSON: json is <<v>> for a body *)
(* that parses to v and <<>> for a body that is not JSON.                  *)
(***************************************************************************)
Statuses == {200, 201, 404}

FACE_FULL ==
    [id |-> "f1", name |-> "Ada", previewImage |-> "i1", previewVideo |-> "v1",
     createdAt |-> "1700"]
FACE_MIN == [id |-> "f2", name |-> "Bo", previewImage |-> "i2"]
FACE_EXTRA == [id |-> "f3", name |-> "Cy", previewImage |-> "i3", isPublic |-> "false"]
FACE_BAD == [id |-> "f4", name |-> "Di"]

FaceBodies ==
    { [text |-> <<"[FACE_FULL]">>, json |-> <<<<FACE_FULL>>>>],
      [text |-> <<"[FACE_MIN,FACE_EXTRA]">>, json |-> <<<<FACE_MIN, FACE_EXTRA>>>>],
      [text |-> <<"[FACE_BAD]">>, json |-> <<<<FACE_BAD>>>>],
      [text |-> <<"Bad Gateway">>, json |-> <<>>] }

TOKEN_OK == [session_token |-> "tok"]
TOKEN_EXTRA == [session_token |-> "tok", expires_in |-> "60"]
TOKEN_BAD == [detail |-> "Invalid API key"]

TokenBodies ==
    { [text |-> <<"TOKEN_OK">>, json |-> <<TOKEN_OK>>],
      [text |-> <<"TOKEN_EXTRA">>, json |-> <<TOKEN_EXTRA>>],
      [text |-> <<"TOKEN_BAD">>, json |-> <<TOKEN_BAD>>],
      [text |-> <<"Bad Gateway">>, json |-> <<>>] }

UpstreamResponse(status_code, body) ==
    [status_code |-> status_code, text |-> body.text, json |-> body.json]

FaceResponses == {UpstreamResponse(s, b) : s \in Statuses, b \in FaceBodies}
TokenResponses == {UpstreamResponse(s, b) : s \in Statuses, b \in TokenBodies}

\* the await raised instead of returning a response (no connection, timeout)
TransportError == [status_code |-> 0, text |-> <<>>, json |-> <<>>]

(***************************************************************************)
(* GET /api/faces (lines 65-78).                                           *)
(***************************************************************************)
FACES_URL == "https://api.simli.ai/getFaceIDs?getPublic=false"

\* the call of line 72: the only header is the configured key, no body.
\* headers and json are NoVal where the code passes none.
FacesCall(r) ==
    [req |-> r, method |-> "GET", url |-> FACES_URL,
     headers |-> ("api-key" :> SIMLI_API_KEY), json |-> NoVal]

\* lines 74-78, given the response of line 72
get_faces_swallow_error(response) ==
    IF response = TransportError THEN ServerError("httpx.TransportError")
    ELSE IF response.status_code # 200
         THEN Response(200, <<>>)
         ELSE IF response.json = <<>> THEN ServerError("JSONDecodeError")
              ELSE FacesResponse(response.json[1])
get_faces(response) ==
    IF response = TransportError THEN ServerError("httpx.TransportError")
    ELSE IF response.status_code # 200
         THEN HTTPException(response.status_code,
                            <<"Error fetching faces from Simli API: ">> \o response.text)
         ELSE IF response.json = <<>> THEN ServerError("JSONDecodeError")
              ELSE FacesResponse(response.json[1])

\* lines 70-72: up to the await
GetFacesCall(r) ==
    /\ Dispatchable(r)
    /\ requests' = [requests EXCEPT ![r] =
           [state |-> "awaiting", route |-> "GET /api/faces", input |-> NoVal,
            reply |-> NoVal, outcome |-> NoVal]]
    /\ upstream' = upstream \cup {FacesCall(r)}
    /\ UNCHANGED <<phase, environ, SIMLI_API_KEY, TTS_API_KEY, stdout, page_vars>>

GetFacesReturnCached(r, response) ==
    /\ requests[r].state = "awaiting"
    /\ requests[r].route = "GET /api/faces"
    /\ LET earlier == {q \in 1..MaxRequests :
                          requests[q].state = "done" /\ requests[q].route = "GET /api/faces"}
       IN requests' = [requests EXCEPT ![r].state = "done", ![r].reply = response,
                           ![r].outcome = IF earlier # {}
                                          THEN requests[CHOOSE q \in earlier : TRUE].outcome
                                          ELSE get_faces(response)]
    /\ UNCHANGED <<phase, environ, SIMLI_API_KEY, TTS_API_KEY, stdout, upstream, page_vars>>
\* lines 72-78: from the await on
GetFacesReturn(r, response) ==
    /\ requests[r].state = "awaiting"
    /\ requests[r].route = "GET /api/faces"
    /\ requests' = [requests EXCEPT ![r].state = "done", ![r].reply = response,
                                    ![r].outcome = get_faces(response)]
    /\ UNCHANGED <<phase, environ, SIMLI_API_KEY, TTS_API_KEY, stdout, upstream, page_vars>>

(***************************************************************************)
(* POST /api/agent (lines 80-96).                                          *)
(***************************************************************************)
AGENT_PREFIX == <<"a", "g", "e", "n", "t", "-">>

create_agent_whole_id(agent) ==
    Response(201, [id |-> AGENT_PREFIX \o agent.face_id,
                   face_id |-> agent.face_id, name |-> agent.name])
\* lines 92-96; status_code=201 is the route's (line 80)
create_agent(agent) ==
    Response(201, [id |-> AGENT_PREFIX \o Slice(agent.face_id, 8),
                   face_id |-> agent.face_id, name |-> agent.name])

CreateAgentForwarding(r, agent) ==
    /\ Dispatchable(r)
    /\ requests' = [requests EXCEPT ![r] =
           [state |-> "done", route |-> "POST /api/agent", input |-> agent,
            reply |-> NoVal, outcome |-> create_agent(agent)]]
    /\ upstream' = upstream \cup
           {[req |-> r, method |-> "POST", url |-> "https://api.simli.ai/agent",
             headers |-> ("x-simli-api-key" :> SIMLI_API_KEY), json |-> agent]}
    /\ UNCHANGED <<phase, environ, SIMLI_API_KEY, TTS_API_KEY, stdout, page_vars>>
\* the handler has no await: it runs in one step
CreateAgent(r, agent) ==
    /\ Dispatchable(r)
    /\ requests' = [requests EXCEPT ![r] =
           [state |-> "done", route |-> "POST /api/agent", input |-> agent,
            reply |-> NoVal, outcome |-> create_agent(agent)]]
    /\ UNCHANGED <<phase, environ, SIMLI_API_KEY, TTS_API_KEY, stdout, upstream, page_vars>>

(***************************************************************************)
(* POST /api/createE2ESessionToken (lines 98-119).                         *)
(***************************************************************************)
TOKEN_URL == "https://api.simli.ai/createE2ESessionToken"

TokenCallServerKeys(r, request) ==
    [req |-> r, method |-> "POST", url |-> TOKEN_URL, headers |-> NoVal,
     json |-> [simliAPIKey |-> SIMLI_API_KEY, ttsAPIKey |-> TTS_API_KEY]]
\* the call of lines 105-111
TokenCall(r, request) ==
    [req |-> r, method |-> "POST", url |-> TOKEN_URL, headers |-> NoVal,
     json |-> [simliAPIKey |-> request.simliAPIKey, ttsAPIKey |-> request.ttsAPIKey]]

\* lines 113-119, given the response of line 105
create_e2e_session_token(response) ==
    IF response = TransportError THEN ServerError("httpx.TransportError")
    ELSE IF response.status_code # 200
         THEN HTTPException(response.status_code,
                            <<"Error creating session token: ">> \o response.text)
         ELSE IF response.json = <<>> THEN ServerError("JSONDecodeError")
              ELSE TokenResponse(response.json[1])

\* lines 104-111: up to the await
CreateTokenCall(r, request) ==
    /\ Dispatchable(r)
    /\ requests' = [requests EXCEPT ![r] =
           [state |-> "awaiting", route |-> "POST /api/createE2ESessionToken",
            input |-> request, reply |-> NoVal, outcome |-> NoVal]]
    /\ upstream' = upstream \cup {TokenCall(r, request)}
    /\ UNCHANGED <<phase, environ, SIMLI_API_KEY, TTS_API_KEY, stdout, page_vars>>

\* lines 105-119: from the await on
CreateTokenReturn(r, response) ==
    /\ requests[r].state = "awaiting"
    /\ requests[r].route = "POST /api/createE2ESessionToken"
    /\ requests' = [requests EXCEPT ![r].state = "done", ![r].reply = response,
                                    ![r].outcome = create_e2e_session_token(response)]
    /\ UNCHANGED <<phase, environ, SIMLI_API_KEY, TTS_API_KEY, stdout, upstream, page_vars>>

(***************************************************************************)
(* GET / (lines 122-719).  The document, cut to the text around the three  *)
(* places where a placeholder stands (lines 423, 428 and 624).             *)
(***************************************************************************)
SIMLI_INPUT_OPEN == "<input type=text id=simliAPIKey name=simliAPIKey value="
TTS_INPUT_OPEN == "<input type=text id=ttsAPIKey name=ttsAPIKey value="
HEADER_OPEN == "'x-simli-api-key': "
QUOTE == "'"
DQUOTE == "dq"

HTML_TEMPLATE ==
    <<"<!DOCTYPE html>", SIMLI_INPUT_OPEN, DQUOTE>> \o SIMLI_PLACEHOLDER \o <<DQUOTE, ">",
      TTS_INPUT_OPEN, DQUOTE>> \o TTS_PLACEHOLDER \o <<DQUOTE, ">",
      "<script>", HEADER_OPEN, QUOTE>> \o SIMLI_PLACEHOLDER \o <<QUOTE,
      " // Assuming you need the same API key", "</script>", "</html>">>

get_html_no_substitution(simli, tts) == HTML_TEMPLATE
\* line 719, with the two globals as they are when the request is handled
get_html(simli, tts) ==
    Replace(Replace(HTML_TEMPLATE, SIMLI_PLACEHOLDER, simli), TTS_PLACEHOLDER, tts)

GetHtml(r) ==
    /\ Dispatchable(r)
    /\ requests' = [requests EXCEPT ![r] =
           [state |-> "done", route |-> "GET /", input |-> NoVal, reply |-> NoVal,
            outcome |-> Response(200, get_html(SIMLI_API_KEY, TTS_API_KEY))]]
    /\ UNCHANGED <<phase, environ, SIMLI_API_KEY, TTS_API_KEY, stdout, upstream, page_vars>>

(***************************************************************************)
(* The server: start-up, then requests handled concurrently.  A handler    *)
(* runs alone between two awaits.                                          *)
(***************************************************************************)
PageClosed == NoVal

Env(D, v) == [n \in D |-> v[n]]

\* three configurations: nothing set; both set; one set, the other set empty
ServerEnvs ==
    { Env({}, <<>>),
      [SIMLI_API_KEY |-> <<"sk">>, TTS_API_KEY |-> <<"tk">>],
      [SIMLI_API_KEY |-> <<"sk">>, TTS_API_KEY |-> <<>>] }

AgentInputs ==
    { [face_id |-> <<>>, name |-> <<"n">>],
      [face_id |-> <<"a", "b", "c">>, name |-> <<"n">>],
      [face_id |-> <<"a", "b", "c", "d", "e", "f", "g", "h", "i", "j">>, name |-> <<"n">>] }

TokenInputs ==
    { [simliAPIKey |-> <<"caller-sk">>, ttsAPIKey |-> <<"caller-tk">>],
      [simliAPIKey |-> <<"sk">>, ttsAPIKey |-> <<>>] }

InitServer(envs) ==
    /\ phase = "boot"
    /\ environ \in envs
    /\ SIMLI_API_KEY = <<>>
    /\ TTS_API_KEY = <<>>
    /\ stdout = <<>>
    /\ requests = [r \in 1..MaxRequests |-> FreeRequest]
    /\ upstream = {}
    /\ page = PageClosed
    /\ network = <<>>
    /\ event = ""

Init == InitServer(ServerEnvs)

Handle(r) ==
    \/ GetFacesCall(r)
    \/ \E response \in FaceResponses \cup {TransportError} : GetFacesReturn(r, response)
    \/ \E agent \in AgentInputs : CreateAgent(r, agent)
    \/ \E request \in TokenInputs : CreateTokenCall(r, request)
    \/ \E response \in TokenResponses \cup {TransportError} : CreateTokenReturn(r, response)
    \/ GetHtml(r)

Next ==
    \/ Startup
    \/ \E r \in 1..MaxRequests : Handle(r)

Spec == Init /\ [][Next]_vars

(***************************************************************************)
(* Start-up under every environment, then one request.                     *)
(***************************************************************************)
KeySegments == {"sk", "TTS", "_API_KEY"}
KeyValues == SeqsUpTo(KeySegments, MaxKeyLen)
AllEnvs == UNION {[D -> KeyValues] : D \in SUBSET EnvNames}

InitStartup == InitServer(AllEnvs)

NextStartup ==
    \/ Startup
    \/ Handle(1)

SpecStartup == InitStartup /\ [][NextStartup]_vars

(***************************************************************************)
(* create_agent on every face_id up to MaxFaceIdLen characters.            *)
(***************************************************************************)
FaceIdChars == {"a", "b"}
AllAgentInputs ==
    {[face_id |-> f, name |-> n] : f \in SeqsUpTo(FaceIdChars, MaxFaceIdLen),
                                   n \in {<<>>, <<"n">>}}

InitAgent ==
    /\ phase = "serving"
    /\ environ = Env({}, <<>>)
    /\ SIMLI_API_KEY = DEFAULT_SIMLI_API_KEY
    /\ TTS_API_KEY = DEFAULT_TTS_API_KEY
    /\ stdout = <<WARN_SIMLI, WARN_TTS>>
    /\ requests = [r \in 1..MaxRequests |-> FreeRequest]
    /\ upstream = {}
    /\ page = PageClosed
    /\ network = <<>>
    /\ event = ""

NextAgent == \E agent \in AllAgentInputs : CreateAgent(1, agent)

SpecAgent == InitAgent /\ [][NextAgent]_vars

(***************************************************************************)
(* The page script (lines 445-716) in the browser that has loaded the      *)
(* document of GET /.                                                      *)
(***************************************************************************)
MaxFetches == 3

CREATE_AGENT_ENDPOINT == "https://api.simli.ai/agent"

RECURSIVE UpTo(_, _, _)
\* the text of s from index i up to the next `close`
UpTo(s, i, close) ==
    IF i > Len(s) \/ s[i] = close THEN <<>> ELSE <<s[i]>> \o UpTo(s, i + 1, close)

\* the text the document holds between `open quote` and the next `quote`
Quoted(doc, open, quote) ==
    LET i == CHOOSE i \in 1..Len(doc) : doc[i] = open /\ doc[i + 1] = quote
    IN UpTo(doc, i + 2, quote)

\* parseInt of a string of decimal digits
RECURSIVE parseInt(_)
parseInt(digits) ==
    IF Len(digits) = 0 THEN 0
    ELSE 10 * parseInt(SubSeq(digits, 1, Len(digits) - 1)) + digits[Len(digits)]

\* the DOM as parsed from the document, and the script's globals (lines
\* 447-448); a display of "" is the style sheet's, which shows the element
PageOf(doc) ==
    [doc |-> doc,
     faces |-> <<>>,
     selectedFaceId |-> "",
     faceSelect |-> [options |-> <<"">>, value |-> ""],
     faceIdInput |-> "",
     facesGrid |-> <<>>,
     loadingElement |-> [display |-> ""],
     errorElement |-> [textContent |-> <<>>, display |-> "none"],
     videoPreview |-> [display |-> "none"],
     videoPlayer |-> [src |-> ""],
     successContainer |-> [display |-> "none"],
     createdAgent |-> [name |-> "", face_id |-> "", id |-> ""],
     tokenSuccessContainer |-> [display |-> "none"],
     createdToken |-> "",
     simliAPIKey |-> Quoted(doc, SIMLI_INPUT_OPEN, DQUOTE),
     ttsAPIKey |-> Quoted(doc, TTS_INPUT_OPEN, DQUOTE),
     apiKeyLiteral |-> Quoted(doc, HEADER_OPEN, QUOTE)]

\* lines 584-586
showLoading(p, isLoading) ==
    [p EXCEPT !.loadingElement.display = IF isLoading THEN "block" ELSE "none"]

\* lines 588-591
showError(p, message) ==
    [p EXCEPT !.errorElement =
        [textContent |-> message, display |-> IF message # <<>> THEN "block" ELSE "none"]]

\* lines 508-519
populateFaceOptions(p, faces) ==
    [p EXCEPT !.faceSelect =
        [options |-> <<"">> \o [i \in 1..Len(faces) |-> faces[i].id], value |-> ""]]

\* lines 521-540
createFaceCards(p, faces) ==
    [p EXCEPT !.facesGrid = [i \in 1..Len(faces) |-> [id |-> faces[i].id, selected |-> FALSE]]]

\* select.value = v: the option of that value is selected, none if there is none
SetSelectValue(select, v) ==
    [select EXCEPT !.value =
        IF \E i \in 1..Len(select.options) : select.options[i] = v THEN v ELSE ""]

\* JavaScript truthiness of a JSON string or null
Truthy(v) == v # JNull /\ v # ""

selectFaceKeepsMarks(p, faceId) ==
    LET found == {i \in 1..Len(p.faces) : p.faces[i].id = faceId}
        first == CHOOSE i \in found : \A j \in found : i <= j
        hasVideo == found # {} /\ Truthy(p.faces[first].previewVideo)
    IN [p EXCEPT !.selectedFaceId = faceId,
                 !.faceSelect = SetSelectValue(p.faceSelect, faceId),
                 !.faceIdInput = faceId,
                 !.facesGrid = [i \in 1..Len(p.facesGrid) |->
                                   [p.facesGrid[i] EXCEPT
                                       !.selected = @ \/ (p.facesGrid[i].id = faceId)]],
                 !.videoPlayer.src = IF hasVideo THEN p.faces[first].previewVideo ELSE @,
                 !.videoPreview.display = IF hasVideo THEN "block" ELSE "none"]
\* lines 542-575
selectFace(p, faceId) ==
    LET found == {i \in 1..Len(p.faces) : p.faces[i].id = faceId}
        first == CHOOSE i \in found : \A j \in found : i <= j
        hasVideo == found # {} /\ Truthy(p.faces[first].previewVideo)
    IN [p EXCEPT !.selectedFaceId = faceId,
                 !.faceSelect = SetSelectValue(p.faceSelect, faceId),
                 !.faceIdInput = faceId,
                 !.facesGrid = [i \in 1..Len(p.facesGrid) |->
                                   [p.facesGrid[i] EXCEPT !.selected = (p.facesGrid[i].id = faceId)]],
                 !.videoPlayer.src = IF hasVideo THEN p.faces[first].previewVideo ELSE @,
                 !.videoPreview.display = IF hasVideo THEN "block" ELSE "none"]

updateSelectedFaceVariableOnly(p) ==
    IF p.faceSelect.value # "" THEN [p EXCEPT !.selectedFaceId = p.faceSelect.value] ELSE p
\* lines 577-582
updateSelectedFace(p) ==
    IF p.faceSelect.value # "" THEN selectFace(p, p.faceSelect.value) ELSE p

Fetch(from, method, url, headers, body) ==
    [from |-> from, method |-> method, url |-> url, headers |-> headers, body |-> body,
     state |-> "pending", result |-> NoVal]

Pending(n, from) ==
    /\ n \in 1..Len(network)
    /\ network[n].from = from
    /\ network[n].state = "pending"

\* the fetch has settled with `result`, which the awaiting function takes up
Settle(n, result) == [network EXCEPT ![n].state = "settled", ![n].result = result]

\* the browser loads GET /: the document is parsed and the script body runs
\* (lines 447-477)
OpenPage ==
    /\ phase = "serving"
    /\ page = PageClosed
    /\ page' = PageOf(get_html(SIMLI_API_KEY, TTS_API_KEY))
    /\ event' = "load"
    /\ UNCHANGED <<server_vars, network>>

Opened == page # PageClosed
Ready == Opened /\ Len(network) > 0

(***************************************************************************)
(* loadFaces (lines 480-506), run on DOMContentLoaded.                     *)
(***************************************************************************)
PAGE_FACE_1 ==
    [id |-> "f1", name |-> "Ada", previewImage |-> "i1", previewVideo |-> "v1",
     createdAt |-> "1700"]
PAGE_FACE_2 ==
    [id |-> "f2", name |-> "Bo", previewImage |-> "i2", previewVideo |-> JNull,
     createdAt |-> JNull]

\* what a fetch settles with: a response (ok is status in 200..299) with its
\* JSON, or a rejection (kind "rejected") with the error's message
FacesFetchResults ==
    { [kind |-> "response", ok |-> TRUE, status |-> "200 OK", json |-> <<PAGE_FACE_1, PAGE_FACE_2>>],
      [kind |-> "response", ok |-> TRUE, status |-> "200 OK", json |-> <<>>],
      [kind |-> "response", ok |-> FALSE, status |-> "401 Unauthorized", json |-> <<>>],
      [kind |-> "rejected", ok |-> FALSE, status |-> "Failed to fetch", json |-> <<>>] }

\* lines 481-483: up to the await
LoadFacesStart ==
    /\ Opened
    /\ network = <<>>
    /\ page' = showLoading(page, TRUE)
    /\ network' = <<Fetch("loadFaces", "GET", "/api/faces", NoVal, NoVal)>>
    /\ event' = "DOMContentLoaded"
    /\ UNCHANGED server_vars

loadFacesSettled(p, result) ==
    IF result.kind = "rejected"
    THEN showLoading(showError(p, <<"Failed to load faces: ", result.status>>), FALSE)
    ELSE IF ~result.ok
         THEN showLoading(showError(p, <<"Failed to load faces: ", "API error: ", result.status>>),
                          FALSE)
         ELSE LET q == [p EXCEPT !.faces = result.json]
              IN IF Len(q.faces) = 0
                 THEN showError(q, <<"No faces available. Please check your API key and try again.">>)
                 ELSE showLoading(createFaceCards(populateFaceOptions(q, q.faces), q.faces), FALSE)

\* lines 483-505: from the await on
LoadFacesSettle(n, result) ==
    /\ Pending(n, "loadFaces")
    /\ page' = loadFacesSettled(page, result)
    /\ network' = Settle(n, result)
    /\ event' = "loadFaces settled"
    /\ UNCHANGED server_vars

(***************************************************************************)
(* The user selects a face.                                                *)
(***************************************************************************)
\* card.onclick (line 528)
ClickCard(i) ==
    /\ Ready
    /\ i \in 1..Len(page.facesGrid)
    /\ page' = selectFace(page, page.facesGrid[i].id)
    /\ event' = "click"
    /\ UNCHANGED <<server_vars, network>>

\* the user picks option i of the dropdown: onchange (line 401)
ChangeFaceSelect(i) ==
    /\ Ready
    /\ i \in 1..Len(page.faceSelect.options)
    /\ page' = updateSelectedFace([page EXCEPT !.faceSelect.value = page.faceSelect.options[i]])
    /\ event' = "change"
    /\ UNCHANGED <<server_vars, network>>

(***************************************************************************)
(* submitAgentForm (lines 593-649).                                        *)
(***************************************************************************)
\* new FormData(agentForm) as lines 606-617 convert it (lines 326-378)
agentData(p) ==
    [face_id |-> p.faceIdInput,
     name |-> "Untitled Agent",
     first_message |-> "The first message you want the agent to say",
     prompt |-> "The persona of the agent and the context of the conversation",
     voice_provider |-> "elevenlabs",
     voice_id |-> "",
     voice_model |-> "",
     language |-> "",
     llm_endpoint |-> "",
     max_idle_time |-> parseInt(<<3, 0, 0>>),
     max_session_length |-> parseInt(<<3, 6, 0, 0>>)]

\* the fetch of lines 620-627
AgentFetch(p) ==
    Fetch("submitAgentForm", "POST", CREATE_AGENT_ENDPOINT,
          ("Content-Type" :> <<"application/json">>) @@ ("x-simli-api-key" :> p.apiKeyLiteral),
          agentData(p))

SubmitAgentFormUnchecked ==
    /\ Ready
    /\ Len(network) < MaxFetches
    /\ page' = [page EXCEPT !.successContainer.display = "none"]
    /\ network' = Append(network, AgentFetch(page))
    /\ event' = "submitAgentForm"
    /\ UNCHANGED server_vars
\* lines 594-627: up to the await
SubmitAgentForm ==
    /\ Ready
    /\ LET p == [page EXCEPT !.successContainer.display = "none"]
       IN IF p.selectedFaceId = ""
          THEN /\ page' = showError(p, <<"Please select a face before creating an agent">>)
               /\ UNCHANGED network
          ELSE /\ Len(network) < MaxFetches
               /\ page' = p
               /\ network' = Append(network, AgentFetch(p))
    /\ event' = "submitAgentForm"
    /\ UNCHANGED server_vars

AgentFetchResults ==
    { [kind |-> "response", ok |-> TRUE,
       json |-> [id |-> "agent-1", name |-> "Untitled Agent", face_id |-> "f1"]],
      [kind |-> "response", ok |-> FALSE, json |-> [detail |-> "Invalid API key"]],
      [kind |-> "response", ok |-> FALSE, json |-> [message |-> "no detail"]],
      [kind |-> "rejected", ok |-> FALSE, json |-> [message |-> "Failed to fetch"]] }

\* errorData.detail || fallback
DetailOr(json, fallback) ==
    IF "detail" \in DOMAIN json /\ Truthy(json.detail) THEN json.detail ELSE fallback

submitAgentFormSettledClearsError(p, result) ==
    IF result.kind = "rejected"
    THEN showError(p, <<"Failed to create agent: ", result.json.message>>)
    ELSE IF ~result.ok
         THEN showError(p, <<"Failed to create agent: ",
                             DetailOr(result.json, "Failed to create agent")>>)
         ELSE showError([p EXCEPT !.createdAgent = [name |-> result.json.name,
                                                    face_id |-> result.json.face_id,
                                                    id |-> result.json.id],
                                  !.successContainer.display = "block"],
                        <<>>)
\* lines 629-648
submitAgentFormSettled(p, result) ==
    IF result.kind = "rejected"
    THEN showError(p, <<"Failed to create agent: ", result.json.message>>)
    ELSE IF ~result.ok
         THEN showError(p, <<"Failed to create agent: ",
                             DetailOr(result.json, "Failed to create agent")>>)
         ELSE [p EXCEPT !.createdAgent = [name |-> result.json.name,
                                          face_id |-> result.json.face_id,
                                          id |-> result.json.id],
                        !.successContainer.display = "block"]

SubmitAgentFormSettle(n, result) ==
    /\ Pending(n, "submitAgentForm")
    /\ page' = submitAgentFormSettled(page, result)
    /\ network' = Settle(n, result)
    /\ event' = "submitAgentForm settled"
    /\ UNCHANGED server_vars

(***************************************************************************)
(* submitSessionTokenForm (lines 651-693).                                 *)
(***************************************************************************)
\* the user types a key into the two fields of the token form
TypedKeys == {<<"typed">>}

EditTokenForm(simli, tts) ==
    /\ Ready
    /\ page' = [page EXCEPT !.simliAPIKey = simli, !.ttsAPIKey = tts]
    /\ event' = "input"
    /\ UNCHANGED <<server_vars, network>>

\* the fetch of lines 667-673, with the form data of lines 658-664
TokenFetch(p) ==
    Fetch("submitSessionTokenForm", "POST", "/api/createE2ESessionToken",
          ("Content-Type" :> <<"application/json">>),
          [simliAPIKey |-> p.simliAPIKey, ttsAPIKey |-> p.ttsAPIKey])

\* lines 652-673: up to the await
SubmitSessionTokenForm ==
    /\ Ready
    /\ Len(network) < MaxFetches
    /\ page' = [page EXCEPT !.tokenSuccessContainer.display = "none"]
    /\ network' = Append(network, TokenFetch(page))
    /\ event' = "submitSessionTokenForm"
    /\ UNCHANGED server_vars

TokenFetchResults ==
    { [kind |-> "response", ok |-> TRUE, json |-> [session_token |-> "tok"]],
      [kind |-> "response", ok |-> FALSE,
       json |-> [detail |-> "Error creating session token: Invalid API key"]],
      [kind |-> "rejected", ok |-> FALSE, json |-> [message |-> "Failed to fetch"]] }

\* lines 675-692
submitSessionTokenFormSettled(p, result) ==
    IF result.kind = "rejected"
    THEN showError(p, <<"Failed to create session token: ", result.json.message>>)
    ELSE IF ~result.ok
         THEN showError(p, <<"Failed to create session token: ",
                             DetailOr(result.json, "Failed to create session token")>>)
         ELSE [p EXCEPT !.createdToken = result.json.session_token,
                        !.tokenSuccessContainer.display = "block"]

SubmitSessionTokenFormSettle(n, result) ==
    /\ Pending(n, "submitSessionTokenForm")
    /\ page' = submitSessionTokenFormSettled(page, result)
    /\ network' = Settle(n, result)
    /\ event' = "submitSessionTokenForm settled"
    /\ UNCHANGED server_vars

(***************************************************************************)
(* The page in the browser, served by a server that has started.           *)
(***************************************************************************)
\* two configurations: a key of plain text, and a key that holds the text
\* TTS_API_KEY
PageKeys ==
    { << <<"sk">>, <<"tk">> >>,
      << <<"sk", "TTS", "_API_KEY">>, <<"tk">> >> }

InitPage ==
    /\ phase = "serving"
    /\ environ = Env({}, <<>>)
    /\ \E k \in PageKeys : SIMLI_API_KEY = k[1] /\ TTS_API_KEY = k[2]
    /\ stdout = <<>>
    /\ requests = [r \in 1..MaxRequests |-> FreeRequest]
    /\ upstream = {}
    /\ page = PageClosed
    /\ network = <<>>
    /\ event = ""

\* the longest face list of FacesFetchResults has two faces
CardIndexes == 1..2
OptionIndexes == 1..3

NextPage ==
    \/ OpenPage
    \/ LoadFacesStart
    \/ \E n \in 1..MaxFetches, result \in FacesFetchResults : LoadFacesSettle(n, result)
    \/ \E i \in CardIndexes : ClickCard(i)
    \/ \E i \in OptionIndexes : ChangeFaceSelect(i)
    \/ SubmitAgentForm
    \/ \E n \in 1..MaxFetches, result \in AgentFetchResults : SubmitAgentFormSettle(n, result)
    \/ \E simli \in TypedKeys, tts \in TypedKeys : EditTokenForm(simli, tts)
    \/ SubmitSessionTokenForm
    \/ \E n \in 1..MaxFetches, result \in TokenFetchResults :
           SubmitSessionTokenFormSettle(n, result)

SpecPage == InitPage /\ [][NextPage]_vars

(***************************************************************************)
(* Properties of the server.                                               *)
(***************************************************************************)
Done(r, route) == requests[r].state = "done" /\ requests[r].route = route

Proxied == {"GET /api/faces", "POST /api/createE2ESessionToken"}

\* the upstream service answered request r, with a status outside 200..299
NonSuccessReply(r) ==
    /\ requests[r].state = "done"
    /\ requests[r].route \in Proxied
    /\ requests[r].reply # TransportError
    /\ requests[r].reply.status_code \notin 200..299

\* the upstream service answered request r with a success status and JSON
SuccessReply(r) ==
    /\ requests[r].state = "done"
    /\ requests[r].route \in Proxied
    /\ requests[r].reply.status_code \in 200..299
    /\ requests[r].reply.json # <<>>

\* C1: create_agent returns id = "agent-" followed by the first 8 characters of
\* face_id (the whole face_id when it is shorter, the empty one included),
\* echoes face_id and name, and raises for no length.
C1_AgentIdIsPrefixOfFaceId ==
    \A r \in 1..MaxRequests :
        Done(r, "POST /api/agent") =>
            LET agent == requests[r].input
                out == requests[r].outcome
            IN /\ out.kind = "response"
               /\ out.body.id =
                      (IF Len(agent.face_id) >= 8
                       THEN AGENT_PREFIX \o [i \in 1..8 |-> agent.face_id[i]]
                       ELSE AGENT_PREFIX \o agent.face_id)
               /\ out.body.face_id = agent.face_id
               /\ out.body.name = agent.name

\* a face_id longer than 8 characters has been cut to 8
C1_Witness ==
    /\ Done(1, "POST /api/agent")
    /\ Len(requests[1].input.face_id) = 9
    /\ Len(requests[1].outcome.body.id) = 14

\* C2: an upstream answer with a non-2xx status ends get_faces and
\* create_e2e_session_token in an error that carries the upstream status and
\* whose detail contains the upstream text; no success body is returned.
C2_UpstreamErrorPropagated ==
    \A r \in 1..MaxRequests :
        NonSuccessReply(r) =>
            LET out == requests[r].outcome
            IN /\ out.kind = "HTTPException"
               /\ out.status_code = requests[r].reply.status_code
               /\ Contains(out.detail, requests[r].reply.text)

\* both handlers have propagated an upstream error
C2_Witness ==
    /\ NonSuccessReply(1) /\ NonSuccessReply(2)
    /\ requests[1].route = "GET /api/faces"
    /\ requests[2].route = "POST /api/createE2ESessionToken"
    /\ requests[1].outcome.status_code = 404
    /\ requests[2].outcome.status_code = 404

SentAs(sent, src, fields) ==
    /\ DOMAIN sent = fields
    /\ \A f \in fields : sent[f] = (IF f \in DOMAIN src THEN src[f] ELSE JNull)
    /\ DOMAIN src = fields => sent = src

C4_AgentIssuesNoUpstreamCall ==
    [][\A r \in 1..MaxRequests :
          (requests[r].state = "free" /\ requests'[r].route = "POST /api/agent") =>
              /\ upstream' = upstream
              /\ requests'[r].state = "done"
              /\ requests'[r].outcome.kind = "response"
              /\ requests'[r].outcome.status_code = 201
              /\ DOMAIN requests'[r].outcome.body = {"id", "face_id", "name"}
              /\ requests'[r].outcome.body.face_id = requests'[r].input.face_id]_vars

\* an agent was created after a proxied request had issued its call
C4_Witness ==
    /\ requests[1].route = "GET /api/faces"
    /\ Done(2, "POST /api/agent")
    /\ requests[2].outcome.status_code = 201
    /\ Cardinality(upstream) = 1

\* the template with the two keys put where the placeholders stand
HtmlWithKeysAtPlaceholders(simli, tts) ==
    LET RECURSIVE Pass(_)
        Pass(i) ==
            IF i > Len(HTML_TEMPLATE) THEN <<>>
            ELSE IF MatchAt(HTML_TEMPLATE, i, SIMLI_PLACEHOLDER)
                 THEN simli \o Pass(i + Len(SIMLI_PLACEHOLDER))
                 ELSE IF MatchAt(HTML_TEMPLATE, i, TTS_PLACEHOLDER)
                      THEN tts \o Pass(i + Len(TTS_PLACEHOLDER))
                      ELSE <<HTML_TEMPLATE[i]>> \o Pass(i + 1)
    IN Pass(1)

\* C5: for every pair of configured keys the document of GET / holds the
\* upstream API key where each SIMLI_API_KEY placeholder stood and the TTS API
\* key where the TTS_API_KEY placeholder stood, both verbatim.
C5_HtmlHoldsBothKeysVerbatim ==
    \A r \in 1..MaxRequests :
        Done(r, "GET /") =>
            requests[r].outcome.body = HtmlWithKeysAtPlaceholders(SIMLI_API_KEY, TTS_API_KEY)

\* C6: the POST of create_e2e_session_token carries as JSON exactly the two
\* keys of the caller's request and nothing of the server's configuration;
\* the GET of get_faces carries the configured upstream API key in its api-key
\* header and nothing of a caller.
C6_KeysSentUpstream ==
    /\ \A c \in upstream :
          LET req == requests[c.req]
          IN \/ /\ req.route = "POST /api/createE2ESessionToken"
                /\ c.method = "POST" /\ c.url = TOKEN_URL
                /\ c.headers = NoVal
                /\ DOMAIN c.json = {"simliAPIKey", "ttsAPIKey"}
                /\ c.json.simliAPIKey = req.input.simliAPIKey
                /\ c.json.ttsAPIKey = req.input.ttsAPIKey
             \/ /\ req.route = "GET /api/faces"
                /\ c.method = "GET" /\ c.url = FACES_URL
                /\ DOMAIN c.headers = {"api-key"}
                /\ c.headers["api-key"] = SIMLI_API_KEY
                /\ c.json = NoVal
    /\ \A r \in 1..MaxRequests :
          requests[r].route \in Proxied => Cardinality({c \in upstream : c.req = r}) = 1

\* a token request whose keys are not the server's has been forwarded, next
\* to a face listing
C6_Witness ==
    /\ requests[1].route = "POST /api/createE2ESessionToken"
    /\ requests[1].input.simliAPIKey # SIMLI_API_KEY
    /\ requests[1].input.ttsAPIKey # TTS_API_KEY
    /\ requests[2].route = "GET /api/faces"
    /\ Cardinality(upstream) = 2

\* the four routes accept a request
RoutesAccept ==
    /\ ENABLED GetFacesCall(1)
    /\ ENABLED (\E agent \in AgentInputs : CreateAgent(1, agent))
    /\ ENABLED (\E request \in TokenInputs : CreateTokenCall(1, request))
    /\ ENABLED GetHtml(1)

Warned(name) == IF name = "SIMLI_API_KEY" THEN WARN_SIMLI ELSE WARN_TTS
DefaultOf(name) ==
    IF name = "SIMLI_API_KEY" THEN DEFAULT_SIMLI_API_KEY ELSE DEFAULT_TTS_API_KEY
Global(name) == IF name = "SIMLI_API_KEY" THEN SIMLI_API_KEY ELSE TTS_API_KEY
InStdout(line) == \E i \in 1..Len(stdout) : stdout[i] = line

\* C7 as stated: start-up completes whatever the environment lacks; a secret
\* that is absent takes its placeholder with a warning, a secret that is
\* present keeps its environment value; then the four routes accept requests.
C7_PresentSecretKeepsItsValue ==
    /\ phase = "boot" => ENABLED Startup
    /\ phase = "serving" =>
          /\ \A name \in EnvNames :
                IF name \in DOMAIN environ
                THEN Global(name) = environ[name]
                ELSE Global(name) = DefaultOf(name) /\ InStdout(Warned(name))
          /\ requests[1].state = "free" => RoutesAccept

\* C7 as amended: start-up completes whatever the environment lacks; a secret
\* that is absent or set to the empty string takes its placeholder with a
\* warning, a secret that is present and not empty keeps its environment
\* value without a warning; then the four routes accept requests.
C7_StartupFallback ==
    /\ phase = "boot" => ENABLED Startup
    /\ phase = "serving" =>
          /\ \A name \in EnvNames :
                IF name \in DOMAIN environ /\ environ[name] # <<>>
                THEN Global(name) = environ[name] /\ ~InStdout(Warned(name))
                ELSE Global(name) = DefaultOf(name) /\ InStdout(Warned(name))
          /\ requests[1].state = "free" => RoutesAccept

\* one secret absent, the other present; the page has been served after it
C7_Witness ==
    /\ phase = "serving"
    /\ DOMAIN environ = {"TTS_API_KEY"}
    /\ environ["TTS_API_KEY"] = <<"sk">>
    /\ SIMLI_API_KEY = DEFAULT_SIMLI_API_KEY
    /\ TTS_API_KEY = <<"sk">>
    /\ stdout = <<WARN_SIMLI>>
    /\ Done(1, "GET /")

\* what the handler of request q answers when it is the only request: a
\* function of its input, its own upstream reply and the configuration
HandledAlone(q, simli, tts) ==
    IF q.route = "GET /api/faces" THEN get_faces(q.reply)
    ELSE IF q.route = "POST /api/agent" THEN create_agent(q.input)
    ELSE IF q.route = "POST /api/createE2ESessionToken"
         THEN create_e2e_session_token(q.reply)
         ELSE Response(200, get_html(simli, tts))

\* C8: under any interleaving of the handlers no handler writes process-wide
\* state (the two keys keep their start-up values), a step of one request
\* leaves every other request alone, and a request is answered as when it is
\* handled alone.
C8_HandlersShareNoState ==
    [][/\ phase = "serving" =>
             /\ SIMLI_API_KEY' = SIMLI_API_KEY
             /\ TTS_API_KEY' = TTS_API_KEY
             /\ environ' = environ
             /\ stdout' = stdout
       /\ \A r \in 1..MaxRequests :
             requests'[r] # requests[r] =>
                 /\ \A q \in 1..MaxRequests \ {r} : requests'[q] = requests[q]
                 /\ \A c \in upstream' \ upstream : c.req = r
                 /\ requests'[r].state = "done" =>
                        requests'[r].outcome =
                            HandledAlone(requests'[r], SIMLI_API_KEY, TTS_API_KEY)]_vars

\* a request was handled to its end while an earlier one is suspended
C8_Witness ==
    /\ requests[1].state = "awaiting"
    /\ requests[2].state = "done"
    /\ requests[1].route = requests[2].route
    /\ requests[2].reply.status_code = 200

(***************************************************************************)
(* Properties of the page script.                                          *)
(***************************************************************************)
\* the step issues a fetch from the function `from`
Issues(from) ==
    /\ Len(network') = Len(network) + 1
    /\ network'[Len(network')].from = from

AgentFetches == {n \in 1..Len(network) : network[n].from = "submitAgentForm"}

\* C9: an agent-form submit while no face is selected sends no request: it
\* shows the 'select a face' error and leaves the agent success container
\* hidden; a create-agent request is sent only when a face is selected.
C9_SubmitRequiresFace ==
    [][/\ (event' = "submitAgentForm" /\ page.selectedFaceId = "") =>
             /\ network' = network
             /\ page'.errorElement.display = "block"
             /\ page'.errorElement.textContent =
                    <<"Please select a face before creating an agent">>
             /\ page'.successContainer.display = "none"
       /\ Issues("submitAgentForm") =>
             /\ page.selectedFaceId # ""
             /\ network'[Len(network')].body.face_id = page.selectedFaceId]_vars

\* the form was submitted with no face selected, after the faces were loaded
C9_Witness ==
    /\ event = "submitAgentForm"
    /\ page.selectedFaceId = ""
    /\ Len(page.facesGrid) = 2
    /\ page.errorElement.textContent = <<"Please select a face before creating an agent">>
    /\ AgentFetches = {}

\* C10 as stated: every create-agent request of the page goes to the
\* hard-coded external URL, never to the local /api/agent, and its
\* x-simli-api-key header is a literal placeholder, not a configured secret.
C10_HeaderIsLiteralPlaceholder ==
    \A n \in AgentFetches :
        /\ network[n].url = "https://api.simli.ai/agent"
        /\ network[n].url # "/api/agent"
        /\ network[n].headers["x-simli-api-key"] = SIMLI_PLACEHOLDER
        /\ network[n].headers["x-simli-api-key"] # SIMLI_API_KEY

\* C10 as amended: every create-agent request of the page goes to the
\* hard-coded external URL, never to the local /api/agent, and its
\* x-simli-api-key header is the text get_html has put where the placeholder
\* stood: the configured upstream API key, in which get_html's second
\* replacement has put the TTS API key for any text TTS_API_KEY (C5).
C10_HeaderIsSubstitutedKey ==
    \A n \in AgentFetches :
        /\ network[n].url = "https://api.simli.ai/agent"
        /\ network[n].url # "/api/agent"
        /\ network[n].method = "POST"
        /\ network[n].headers["x-simli-api-key"] =
               Replace(SIMLI_API_KEY, TTS_PLACEHOLDER, TTS_API_KEY)
        /\ ~Contains(SIMLI_API_KEY, TTS_PLACEHOLDER) =>
               network[n].headers["x-simli-api-key"] = SIMLI_API_KEY

\* a create-agent request has been sent by a page whose server holds a key
\* that is not the placeholder text
C10_Witness ==
    /\ AgentFetches # {}
    /\ SIMLI_API_KEY = <<"sk">>
    /\ \A n \in AgentFetches : network[n].headers["x-simli-api-key"] = <<"sk">>

\* the step is a call of selectFace: a click on a card, or a change of the
\* dropdown to an option that is not the empty one
SelectsFace ==
    \/ event' = "click"
    \/ event' = "change" /\ page'.faceSelect.value # ""

\* C11: after selectFace(id), whatever was selected before, the cards marked
\* 'selected' are exactly the cards whose id is id, the hidden face_id field
\* is id, and the video preview is visible exactly when the loaded face of
\* that id has a previewVideo.
C11_SelectFaceMarksExactlyOne ==
    [][SelectsFace =>
          LET id == page'.selectedFaceId
              q == page'
          IN /\ \E i \in 1..Len(page.faceSelect.options) : page.faceSelect.options[i] = id
             /\ id # ""
             /\ \A i \in 1..Len(q.facesGrid) :
                    q.facesGrid[i].selected <=> (q.facesGrid[i].id = id)
             /\ q.faceIdInput = id
             /\ (q.videoPreview.display = "block") <=>
                    (\E i \in 1..Len(q.faces) :
                         q.faces[i].id = id /\ q.faces[i].previewVideo \notin {JNull, ""})
             /\ q.videoPreview.display \in {"block", "none"}]_vars

\* the face without a video is selected after the face with one had been
C11_Witness ==
    /\ event \in {"click", "change"}
    /\ page.selectedFaceId = "f2"
    /\ page.videoPlayer.src = "v1"
    /\ page.videoPreview.display = "none"
    /\ page.facesGrid[2].selected /\ ~page.facesGrid[1].selected

TokenFetches == {n \in 1..Len(network) : network[n].from = "submitSessionTokenForm"}

\* the step settles fetch n
Settles(n) == network[n].state = "pending" /\ network'[n].state = "settled"

\* C12: every token-form submit sends one POST with the two form fields to
\* the local /api/createE2ESessionToken and first hides the token success
\* container; with an ok response the container becomes visible and shows the
\* returned session_token; with a response that is not ok, or a request that
\* fails, the error banner becomes visible with a message and the token
\* success container stays hidden.
C12_TokenSubmitShowsTokenOrError ==
    [][/\ event' = "submitSessionTokenForm" =>
             /\ Issues("submitSessionTokenForm")
             /\ LET f == network'[Len(network')]
                IN /\ f.method = "POST"
                   /\ f.url = "/api/createE2ESessionToken"
                   /\ f.body = [simliAPIKey |-> page.simliAPIKey, ttsAPIKey |-> page.ttsAPIKey]
             /\ page'.tokenSuccessContainer.display = "none"
       /\ \A n \in TokenFetches :
             Settles(n) =>
                 LET result == network'[n].result
                 IN IF result.kind = "response" /\ result.ok
                    THEN /\ page'.tokenSuccessContainer.display = "block"
                         /\ page'.createdToken = result.json.session_token
                    ELSE /\ page'.errorElement.display = "block"
                         /\ page'.errorElement.textContent # <<>>
                         /\ page'.tokenSuccessContainer.display = "none"]_vars

\* C13: in every state of the page script selectedFaceId equals the value of
\* the hidden face_id field, and the dropdown's value, when it is not empty,
\* equals selectedFaceId; so the face_id of a submitted agent payload is the
\* face selected when it is submitted.
C13_SelectedFaceIsFormFace ==
    [][/\ page' # PageClosed =>
             /\ page'.selectedFaceId = page'.faceIdInput
             /\ page'.faceSelect.value # "" => page'.faceSelect.value = page'.selectedFaceId
       /\ Issues("submitAgentForm") =>
             /\ network'[Len(network')].body.face_id = page.selectedFaceId
             /\ network'[Len(network')].body.face_id = page'.selectedFaceId]_vars

\* an agent was submitted for the selected face while the dropdown had been
\* put back on its empty option
C13_Witness ==
    /\ page # PageClosed
    /\ page.selectedFaceId = "f2"
    /\ page.faceSelect.value = ""
    /\ \E n \in AgentFetches : network[n].body.face_id = "f2"

\* C14: whenever loadFaces has finished, on every path (faces returned, empty
\* list returned, response not ok, fetch failed), the loading indicator is
\* hidden.
C14_LoadingHiddenWhenLoadFacesFinishes ==
    \A n \in 1..Len(network) :
        (network[n].from = "loadFaces" /\ network[n].state = "settled") =>
            page.loadingElement.display = "none"

\* C15: once the error banner is visible no later operation of the page
\* script hides or clears it, a face selection and a successful agent or
\* token submission included; so the banner and a success container can be
\* visible together.
C15_ErrorBannerStaysVisible ==
    [][(page # PageClosed /\ page.errorElement.display = "block") =>
          /\ page'.errorElement.display = "block"
          /\ page'.errorElement.textContent # <<>>]_vars

\* an agent was created after the 'select a face' error and a selection: the
\* banner and the agent success container are visible together
C15_Witness ==
    /\ page # PageClosed
    /\ event = "submitAgentForm settled"
    /\ page.errorElement.display = "block"
    /\ page.errorElement.textContent = <<"Please select a face before creating an agent">>
    /\ page.selectedFaceId = "f1"
    /\ page.successContainer.display = "block"

====
